---- MODULE Spec2Model ----
(***************************************************************************)
(* Model of the description.ext function index of vscode-sqflint           *)
(* (server/src/modules/ext.ts, class ExtModule): the workspace indexer,    *)
(* the debounced reparse of changed documents, the function index builder  *)
(* and the diagnostics it publishes.                                       *)
(*                                                                         *)
(* Strings are sequences of atoms.  An atom is a character, or a run of    *)
(* characters that no operation of the module ever splits ("functions",    *)
(* ".sqf", "description.ext").  Letters whose case matters are atoms of    *)
(* their own, so that toLowerCase is modelled by what it does.             *)
(* Paths are POSIX paths, "/" being an atom of its own.                    *)
(***************************************************************************)
EXTENDS Integers, Sequences, FiniteSets, TLC

(***************************************************************************)
(* JavaScript values                                                       *)
(***************************************************************************)
\* JavaScript's undefined, for a string-valued slot.
Undefined == <<"<undefined>">>

\* The value of a config variable: a string or an array (file[] = {...}).
StrVal(s) == [type |-> "string", value |-> s]
ArrVal(s) == [type |-> "array", value |-> s]
NoVal == [type |-> "undefined", value |-> <<>>]

\* Truthiness of a config variable value: undefined and "" are falsy.
Truthy(v) == v.type = "array" \/ (v.type = "string" /\ v.value # <<>>)

UpperToLower ==
    [c \in {"A", "B", "C", "D", "F", "G", "H", "M", "T", "U", "Y"} |->
        CASE c = "A" -> "a" [] c = "B" -> "b" [] c = "C" -> "c" [] c = "D" -> "d"
          [] c = "F" -> "f" [] c = "G" -> "g" [] c = "H" -> "h"
          [] c = "M" -> "m" [] c = "T" -> "t" [] c = "U" -> "u"
          [] c = "Y" -> "y"]

\* String.prototype.toLowerCase
ToLowerCase(s) ==
    [i \in 1..Len(s) |-> IF s[i] \in DOMAIN UpperToLower THEN UpperToLower[s[i]] ELSE s[i]]

\* String.prototype.startsWith
StartsWith(s, p) == Len(s) >= Len(p) /\ SubSeq(s, 1, Len(p)) = p

\* String.prototype.slice(n)
Slice(s, n) == SubSeq(s, n + 1, Len(s))

(***************************************************************************)
(* path (POSIX)                                                            *)
(***************************************************************************)
Sep == "/"

IsAbsolute(p) == Len(p) > 0 /\ p[1] = Sep

\* The segments of a path: the maximal runs of atoms between separators.
RECURSIVE Segments(_)
Segments(p) ==
    IF p = <<>> THEN <<>>
    ELSE IF p[1] = Sep THEN Segments(Tail(p))
    ELSE LET n == CHOOSE k \in 1..Len(p) :
                     /\ \A i \in 1..k : p[i] # Sep
                     /\ (k = Len(p) \/ p[k + 1] = Sep)
         IN  <<SubSeq(p, 1, n)>> \o Segments(SubSeq(p, n + 1, Len(p)))

\* Resolution of "." and ".." segments, left to right.
RECURSIVE ResolveDots(_, _, _)
ResolveDots(segs, acc, abs) ==
    IF segs = <<>> THEN acc
    ELSE LET s == Head(segs) IN
         IF s = <<".">> THEN ResolveDots(Tail(segs), acc, abs)
         ELSE IF s = <<"..">> THEN
             IF acc # <<>> /\ acc[Len(acc)] # <<"..">>
             THEN ResolveDots(Tail(segs), SubSeq(acc, 1, Len(acc) - 1), abs)
             ELSE IF abs THEN ResolveDots(Tail(segs), acc, abs)
             ELSE ResolveDots(Tail(segs), Append(acc, s), abs)
         ELSE ResolveDots(Tail(segs), Append(acc, s), abs)

RECURSIVE JoinSegments(_)
JoinSegments(segs) ==
    IF segs = <<>> THEN <<>>
    ELSE IF Len(segs) = 1 THEN segs[1]
    ELSE segs[1] \o <<Sep>> \o JoinSegments(Tail(segs))

\* A normalized path, from its resolved segments.
Normalized(body, abs, trail) ==
    IF body = <<>> THEN (IF abs THEN <<Sep>> ELSE IF trail THEN <<".", Sep>> ELSE <<".">>)
    ELSE (IF abs THEN <<Sep>> ELSE <<>>) \o body \o (IF trail THEN <<Sep>> ELSE <<>>)

\* path.normalize
Normalize(p) ==
    IF p = <<>> THEN <<".">>
    ELSE Normalized(JoinSegments(ResolveDots(Segments(p), <<>>, IsAbsolute(p))),
                    IsAbsolute(p), p[Len(p)] = Sep)

\* path.join(a, b): the non-empty arguments joined by "/" and normalized.
PathJoin(a, b) ==
    IF a = <<>> /\ b = <<>> THEN <<".">>
    ELSE IF a = <<>> THEN Normalize(b)
    ELSE IF b = <<>> THEN Normalize(a)
    ELSE Normalize(a \o <<Sep>> \o b)

\* The directory of a path, from its segments.
DirnameOf(segs, abs) ==
    IF Len(segs) <= 1 THEN (IF abs THEN <<Sep>> ELSE <<".">>)
    ELSE (IF abs THEN <<Sep>> ELSE <<>>) \o JoinSegments(SubSeq(segs, 1, Len(segs) - 1))

\* path.dirname
Dirname(p) == DirnameOf(Segments(p), IsAbsolute(p))

LastOf(segs) == IF segs = <<>> THEN <<>> ELSE segs[Len(segs)]

\* path.basename
Basename(p) == LastOf(Segments(p))

\* path.extname: the extension atom ending the basename, if any.
Extensions == {".sqf", ".hpp", ".ext", ".sqm"}

ExtensionOf(b) ==
    IF Len(b) > 1 /\ b[Len(b)] \in Extensions THEN <<b[Len(b)]>> ELSE <<>>

Extname(p) == ExtensionOf(Basename(p))

(***************************************************************************)
(* Uri                                                                     *)
(***************************************************************************)
\* Uri.file(filename).toString()
UriFile(filename) == <<"file://">> \o filename

\* Uri.parse(uri).fsPath
FsPath(uri) == IF uri # <<>> /\ uri[1] = "file://" THEN Tail(uri) ELSE uri

(***************************************************************************)
(* The workspace: its files and what they can hold                         *)
(***************************************************************************)
WorkspaceRoot == <<"/", "w">>

\* The root configuration files of the workspace.
Root1 == <<"/", "w", "/", "description.ext">>
Root2 == <<"/", "w", "/", "m", "/", "description.ext">>
Roots == {Root1, Root2}

\* A header file both roots can include.
HppFile == <<"/", "w", "/", "f", ".hpp">>

\* A script of the workspace.
SqfFile == <<"/", "w", "/", "s", ".sqf">>

\* The documents the editor can report as changed, by URI.
Documents == {UriFile(Root1), UriFile(Root2), UriFile(HppFile), UriFile(SqfFile)}

\* What a root file can hold.
\*   plain : no CfgFunctions class
\*   fns   : CfgFunctions { class Tg { tag = "MY"; class Ut { class doA {}; }; }; }
\*   inc   : CfgFunctions { class Tg { class Ut { class doA {}; #include "f.hpp" }; }; }
\*           (the declaration site of doA is not known here)
\*   crash : CfgFunctions { class Tg { class Ut { class doA {}; class G { file[] = {"x"}; }; }; }; }
\*   bad   : a syntax error
RootTexts == {"plain", "fns", "inc", "crash", "bad"}

\* What the header file can hold: class inH {}; or a syntax error.
HppTexts == {"fn", "bad"}

(***************************************************************************)
(* Hpp: the config tree and its parser                                     *)
(***************************************************************************)
\* Hpp.Class
Class(name, variables, classes, site, range) ==
    [name |-> name, variables |-> variables, classes |-> classes,
     fileLocation |-> [filename |-> site, range |-> range]]

NoVars == [k \in {} |-> NoVal]

\* body.variables[key]
Var(class, key) ==
    IF key \in DOMAIN class.variables THEN class.variables[key] ELSE NoVal

FnDoA(site) == Class(<<"d", "o", "A">>, NoVars, <<>>, site, "L3")
FnInH == Class(<<"i", "n", "H">>, NoVars, <<>>, HppFile, "H1")
FnG(site) == Class(<<"G">>, [k \in {"file"} |-> ArrVal(<<"x">>)], <<>>, site, "L4")

CategoryUt(fns, site) == Class(<<"U", "t">>, NoVars, fns, site, "L2")

TagTg(vars, cats, site) == Class(<<"T", "g">>, vars, cats, site, "L1")

CfgFunctionsClass(tags, site) == Class(<<"C", "f", "g", "F", "unctions">>, NoVars, tags, site, "L0")

\* The classes at the top level of the tree that parsing `text` gives.
TreeOf(filename, text) ==
    CASE text = "fns" ->
           <<CfgFunctionsClass(<<TagTg([k \in {"tag"} |-> StrVal(<<"M", "Y">>)],
                 <<CategoryUt(<<FnDoA(filename)>>, filename)>>, filename)>>, filename)>>
      [] text = "inc" ->
           <<CfgFunctionsClass(<<TagTg(NoVars,
                 <<CategoryUt(<<FnDoA(Undefined), FnInH>>, filename)>>, filename)>>, filename)>>
      [] text = "crash" ->
           <<CfgFunctionsClass(<<TagTg(NoVars,
                 <<CategoryUt(<<FnDoA(filename), FnG(filename)>>, filename)>>, filename)>>, filename)>>
      [] OTHER -> <<>>

\* Hpp.parse(filename), given what the root file and the header file hold:
\* the files the parser touches, in order (Hpp.onFilename is called for each),
\* and the tree, or the ParseError thrown.
HppParse(filename, text, hpp) ==
    CASE text = "bad" ->
           [kind |-> "ParseError", touched |-> <<filename>>, classes |-> <<>>,
            error |-> [filename |-> filename, range |-> "E1", message |-> <<"syntax error">>]]
      [] text = "inc" /\ hpp = "bad" ->
           [kind |-> "ParseError", touched |-> <<filename, HppFile>>, classes |-> <<>>,
            error |-> [filename |-> HppFile, range |-> "E2", message |-> <<"syntax error">>]]
      [] OTHER ->
           [kind |-> "tree",
            touched |-> IF text = "inc" THEN <<filename, HppFile>> ELSE <<filename>>,
            classes |-> TreeOf(filename, text),
            error |-> [filename |-> Undefined, range |-> "", message |-> <<>>]]

\* "cfgfunctions"
CfgFunctionsKey == <<"c", "f", "g", "f", "unctions">>

\* context.classes[key]: the class stored under a lower-cased name, if any.
HasClass(classes, key) == \E i \in 1..Len(classes) : ToLowerCase(classes[i].name) = key

ClassNamed(classes, key) ==
    classes[CHOOSE i \in 1..Len(classes) : ToLowerCase(classes[i].name) = key]

(***************************************************************************)
(* ExtModule.processCfgFunctions                                           *)
(***************************************************************************)
\* The function classes of the registry in the order of the three nested
\* loops, each with its tag class and its category class.
RECURSIVE OverFunctions(_, _, _)
OverFunctions(tagClass, categoryClass, fns) ==
    IF fns = <<>> THEN <<>>
    ELSE <<[tag |-> tagClass, category |-> categoryClass, function |-> Head(fns)]>>
         \o OverFunctions(tagClass, categoryClass, Tail(fns))

RECURSIVE OverCategories(_, _)
OverCategories(tagClass, cats) ==
    IF cats = <<>> THEN <<>>
    ELSE OverFunctions(tagClass, Head(cats), Head(cats).classes)
         \o OverCategories(tagClass, Tail(cats))

RECURSIVE OverTags(_)
OverTags(tags) ==
    IF tags = <<>> THEN <<>>
    ELSE OverCategories(Head(tags), Head(tags).classes) \o OverTags(Tail(tags))

\* As TagOf, were the tag variable of the group ignored.
TagOfClassName(tagClass) == tagClass.name

\* tag = tagClass.body.variables.tag || tagClass.name
TagOf(tagClass) ==
    IF Truthy(Var(tagClass, "tag")) THEN Var(tagClass, "tag").value ELSE tagClass.name

\* As CategoryTagOf, were the tag variable of the category ignored.
CategoryTagOfGroup(tagClass, categoryClass) == TagOf(tagClass)

\* categoryTag = categoryClass.body.variables["tag"] || tag
CategoryTagOf(tagClass, categoryClass) ==
    IF Truthy(Var(categoryClass, "tag")) THEN Var(categoryClass, "tag").value
    ELSE TagOf(tagClass)

\* categoryPath: functions/<category>, or the category's file variable.
CategoryPathOf(categoryClass) ==
    IF Truthy(Var(categoryClass, "file")) THEN Var(categoryClass, "file").value
    ELSE PathJoin(<<"functions">>, categoryClass.name)

\* ext = functionClass.body.variables["ext"] || ".sqf"
ExtOf(functionClass) ==
    IF Truthy(Var(functionClass, "ext")) THEN Var(functionClass, "ext").value ELSE <<".sqf">>

\* fullFunctionName = categoryTag + "_fnc_" + functionName
FullFunctionName(e) ==
    CategoryTagOf(e.tag, e.category) \o <<"_fnc_">> \o e.function.name

\* As RelativeFilename, were the file variable of a function a name under the
\* path of its category.
RelativeFilenameUnderCategory(e) ==
    IF Truthy(Var(e.function, "file"))
    THEN PathJoin(CategoryPathOf(e.category), Var(e.function, "file").value)
    ELSE PathJoin(CategoryPathOf(e.category), <<"fn_">> \o e.function.name \o ExtOf(e.function))

\* The relative filename: the function's file variable, or the default.
RelativeFilename(e) ==
    IF Truthy(Var(e.function, "file")) THEN Var(e.function, "file").value
    ELSE PathJoin(CategoryPathOf(e.category), <<"fn_">> \o e.function.name \o ExtOf(e.function))

\* path.join and startsWith throw a TypeError on an array.
ThrowsTypeError(e) ==
    \/ Var(e.category, "file").type = "array"
    \/ Var(e.function, "file").type = "array"

\* As FirstPrefix, were the longest matching prefix taken.
LongestPrefix(prefixes, filename) ==
    IF \E i \in 1..Len(prefixes) : StartsWith(filename, prefixes[i].prefix)
    THEN CHOOSE i \in 1..Len(prefixes) :
            /\ StartsWith(filename, prefixes[i].prefix)
            /\ \A j \in 1..Len(prefixes) :
                  StartsWith(filename, prefixes[j].prefix) =>
                      Len(prefixes[j].prefix) <= Len(prefixes[i].prefix)
    ELSE 0

\* The first include prefix, in declared order, the filename starts with (0: none).
FirstPrefix(prefixes, filename) ==
    IF \E i \in 1..Len(prefixes) : StartsWith(filename, prefixes[i].prefix)
    THEN CHOOSE i \in 1..Len(prefixes) :
            /\ StartsWith(filename, prefixes[i].prefix)
            /\ \A j \in 1..(i - 1) : ~StartsWith(filename, prefixes[j].prefix)
    ELSE 0

\* The filename with include prefix p replaced by the path it maps to.
Substitute(p, root, sub) ==
    IF IsAbsolute(p.path) THEN sub ELSE PathJoin(root, sub)

ResolveWith(prefixes, i, root, filename) ==
    IF i = 0 THEN PathJoin(root, filename)
    ELSE Substitute(prefixes[i], root,
                    prefixes[i].path \o Slice(filename, Len(prefixes[i].prefix)))

\* The resolution of a relative filename against the include prefixes and the
\* directory of the root file.
ResolveFilename(prefixes, root, filename) ==
    ResolveWith(prefixes, FirstPrefix(prefixes, filename), root, filename)

\* As FunctionKey, were the name not lower-cased.
FunctionKeyAsDeclared(fullFunctionName) == fullFunctionName

\* The key a function is saved under.
FunctionKey(fullFunctionName) == ToLowerCase(fullFunctionName)

\* The diagnostic of a function whose file does not exist.
MissingFileDiagnostic(functionClass, filename, fullFunctionName) ==
    [severity |-> "Error",
     range |-> functionClass.fileLocation.range,
     message |-> <<"Failed to find ">> \o filename \o <<" for function ">>
                 \o fullFunctionName \o <<".">>,
     source |-> "sqflint"]

\* The URI a missing file is reported at: the declaration site, or the root file.
DiagnosticUri(functionClass, rootFilename) ==
    UriFile(IF functionClass.fileLocation.filename # Undefined
            THEN functionClass.fileLocation.filename ELSE rootFilename)

\* diagnostics[uri].push(d), diagnostics keeping the order its keys were added in.
PushDiagnostic(diagnostics, uri, d) ==
    IF \E i \in 1..Len(diagnostics) : diagnostics[i].uri = uri
    THEN [i \in 1..Len(diagnostics) |->
            IF diagnostics[i].uri = uri
            THEN [diagnostics[i] EXCEPT !.diagnostics = Append(@, d)]
            ELSE diagnostics[i]]
    ELSE Append(diagnostics, [uri |-> uri, diagnostics |-> <<d>>])

\* table[key] = record, for the table functions[rootFilename]
SaveFunction(table, key, record) ==
    [k \in DOMAIN table \cup {key} |-> IF k = key THEN record ELSE table[k]]

\* The body of the innermost loop, from the name and the file of the function:
\* the function is saved, and reported if its file does not exist.
SaveAndCheck(functionClass, fullFunctionName, filename, rootFilename, onDiskNow, acc) ==
    [functions |-> SaveFunction(acc.functions, FunctionKey(fullFunctionName),
                       [filename |-> filename, name |-> fullFunctionName,
                        info |-> "undefined"]),
     diagnostics |->
         IF filename \in onDiskNow THEN acc.diagnostics
         ELSE PushDiagnostic(acc.diagnostics, DiagnosticUri(functionClass, rootFilename),
                  MissingFileDiagnostic(functionClass, filename, fullFunctionName)),
     threw |-> FALSE]

\* One function class of the loops.
CollectFunction(e, prefixes, rootFilename, onDiskNow, acc) ==
    IF ThrowsTypeError(e) THEN [acc EXCEPT !.threw = TRUE]
    ELSE SaveAndCheck(e.function, FullFunctionName(e),
             ResolveFilename(prefixes, Dirname(rootFilename), RelativeFilename(e)),
             rootFilename, onDiskNow, acc)

\* The loops of processCfgFunctions over the function classes `es`, from the
\* table and the diagnostics collected so far; threw: a TypeError ended them.
RECURSIVE CollectFunctions(_, _, _, _, _)
CollectFunctions(es, prefixes, rootFilename, onDiskNow, acc) ==
    IF es = <<>> \/ acc.threw THEN acc
    ELSE CollectFunctions(Tail(es), prefixes, rootFilename, onDiskNow,
             CollectFunction(Head(es), prefixes, rootFilename, onDiskNow, acc))

EmptyTable == [k \in {} |-> [filename |-> <<>>, name |-> <<>>, info |-> "undefined"]]

\* The table and the diagnostics processCfgFunctions builds for a registry.
BuildFunctions(cfgFunctions, prefixes, rootFilename, onDiskNow) ==
    CollectFunctions(OverTags(cfgFunctions.classes), prefixes, rootFilename, onDiskNow,
                     [functions |-> EmptyTable, diagnostics |-> <<>>, threw |-> FALSE])

(***************************************************************************)
(* Bounds of the model                                                     *)
(***************************************************************************)
\* How many times the environment changes a file.
MaxEdits == 1

\* How many parseDocument requests the editor sends while files change.
MaxRequests == 1

\* How many parseDocument requests the editor sends in a workspace at rest.
MaxBurst == 3

\* How many times the registry under scan is scanned.
MaxScans == 2

\* How many completion requests the editor sends.
MaxCompletions == 1

\* The time one step of the clock takes, in ms.
TickMs == 100

\* The debounce window of the SingleRunner, in ms.
Timeout == 200

(***************************************************************************)
(* Settings                                                                *)
(***************************************************************************)
RelRoot1 == <<"description.ext">>
RelRoot2 == <<"m", "/", "description.ext">>

\* getSettings(): what the user can have configured.  exclude holds the
\* workspace-relative paths the exclude patterns match.
DefaultSettings ==
    [descriptionFiles |-> <<>>, discoverDescriptionFiles |-> TRUE,
     exclude |-> {}, includePrefixes |-> <<>>]

SettingsChoices ==
    { DefaultSettings,
      [descriptionFiles |-> <<>>, discoverDescriptionFiles |-> TRUE,
       exclude |-> {RelRoot2}, includePrefixes |-> <<>>],
      [descriptionFiles |-> <<RelRoot2>>, discoverDescriptionFiles |-> FALSE,
       exclude |-> {}, includePrefixes |-> <<>>] }

\* The script files that come and go on disk: those of the functions doA and
\* inH of the first root.
FnFiles ==
    { PathJoin(Dirname(Root1), <<"functions", "/", "U", "t", "/", "fn_">> \o n \o <<".sqf">>) :
        n \in {<<"d", "o", "A">>, <<"i", "n", "H">>} }

\* The script files that start with a documentation comment.
DocFiles == { PathJoin(Dirname(Root1),
                       <<"functions", "/", "U", "t", "/", "fn_", "d", "o", "A", ".sqf">>) }

(***************************************************************************)
(* The registries and the include prefixes a scan is checked on            *)
(***************************************************************************)
\* A cfgfunctions class with no tag group: no root file is under scan.
NoRegistry == CfgFunctionsClass(<<>>, Undefined)

\* The variables a tag group, a category and a function class can have.
\* An empty string is a value as any other: tag = "";
TagVariables ==
    { NoVars, [k \in {"tag"} |-> StrVal(<<"M", "Y">>)], [k \in {"tag"} |-> StrVal(<<>>)] }

CategoryVariables ==
    { NoVars,
      [k \in {"tag"} |-> StrVal(<<"C", "T">>)],
      [k \in {"tag"} |-> StrVal(<<>>)],
      [k \in {"file"} |-> StrVal(<<"lib">>)],
      [k \in {"tag", "file"} |-> IF k = "tag" THEN StrVal(<<"C", "T">>) ELSE StrVal(<<"lib">>)] }

\* \A3\foo.sqf
PrefixedFile == <<"\\", "A", "3", "\\", "foo", ".sqf">>

FunctionVariables ==
    { NoVars,
      [k \in {"ext"} |-> StrVal(<<".sqm">>)],
      [k \in {"file"} |-> StrVal(<<"x", ".sqf">>)],
      [k \in {"file"} |-> StrVal(PrefixedFile)],
      [k \in {"file"} |-> StrVal(<<>>)],
      [k \in {"ext", "file"} |-> IF k = "ext" THEN StrVal(<<".sqm">>) ELSE StrVal(PrefixedFile)] }

\* CfgFunctions { class Tg { <tagVars> class Ut { <categoryVars> class doA { <functionVars> }; };
\*                            class Ms { class run {}; }; }; }
RegistryWith(tagVars, categoryVars, functionVars) ==
    CfgFunctionsClass(
        <<TagTg(tagVars,
                <<Class(<<"U", "t">>, categoryVars,
                        <<Class(<<"d", "o", "A">>, functionVars, <<>>, Undefined, "L3")>>,
                        Undefined, "L2"),
                  Class(<<"M", "s">>, NoVars,
                        <<Class(<<"run">>, NoVars, <<>>, Undefined, "L6")>>,
                        Undefined, "L5")>>,
                Undefined)>>,
        Undefined)

ScanRegistries ==
    { RegistryWith(tagVars, categoryVars, functionVars) :
        tagVars \in TagVariables, categoryVars \in CategoryVariables,
        functionVars \in FunctionVariables }

\* One entry of settings.includePrefixes.
Prefix(prefix, mapped) == [prefix |-> prefix, path |-> mapped]

\* settings.includePrefixes, in the order the keys were declared in.
PrefixChoices ==
    { <<>>,
      <<Prefix(<<"\\", "A", "3", "\\">>, <<"/", "data">>)>>,
      <<Prefix(<<"\\", "A", "3", "\\">>, <<"data">>)>>,
      <<Prefix(<<"\\", "A">>, <<"/", "a">>), Prefix(<<"\\", "A", "3", "\\">>, <<"/", "data">>)>>,
      <<Prefix(<<"\\", "A", "3", "\\">>, <<"/", "a", "/">>), Prefix(<<"/", "a">>, <<"/", "b">>)>>,
      <<Prefix(<<"functions">>, <<"/", "opt">>), Prefix(<<"\\", "A", "3", "\\">>, <<"/", "data">>)>> }

(***************************************************************************)
(* What parsing and scanning give, for everything the files can hold       *)
(***************************************************************************)
\* Hpp.parse of each root file, for each content of it and of the header file.
Parsed ==
    [filename \in Roots, text \in RootTexts, hpp \in HppTexts |->
        HppParse(filename, text, hpp)]

\* path.join(root, file), for every workspace-relative name of a root file.
InWorkspace == [file \in {RelRoot1, RelRoot2} |-> PathJoin(WorkspaceRoot, file)]

\* path.basename and path.extname of the file of each document.
NameOf ==
    [d \in Documents |->
        [basename |-> Basename(FsPath(d)), extname |-> Extname(FsPath(d))]]

\* The cfgfunctions classes the root files can hold.
Registries ==
    { ClassNamed(TreeOf(r, text), CfgFunctionsKey) :
        r \in Roots, text \in {t \in RootTexts : HasClass(TreeOf(Root1, t), CfgFunctionsKey)} }

\* The loops of processCfgFunctions over each of them, for each root file, each
\* list of prefixes and each set of script files on disk.
Built ==
    [cfgFunctions \in Registries, prefixes \in {c.includePrefixes : c \in SettingsChoices},
     rootFilename \in Roots, onDiskNow \in {present : present \in SUBSET FnFiles} |->
        BuildFunctions(cfgFunctions, prefixes, rootFilename, onDiskNow)]

(***************************************************************************)
(* State                                                                   *)
(***************************************************************************)
VARIABLES
    settings,    \* getSettings()
    onDisk,      \* the root files that exist on disk
    rootText,    \* what each root file holds
    hppText,     \* what the header file holds
    existing,    \* the script files that exist on disk
    registry,    \* the cfgfunctions class of the root file under scan
    functions,   \* ExtModule.functions: root file -> (key -> Function)
    files,       \* ExtModule.files
    published,   \* the diagnostics last sent for each URI
    timeouts,    \* SingleRunner: the time left on the timer of each key, or Idle
    reading,     \* the fs.readFile calls of parseFile whose callback is due
    indexing,    \* where the call of indexWorkspace is
    issued,      \* history: the requests made for each document
    runs,        \* history: the requests whose task ran, per document, in order
    rapid,       \* history: every request of the document came within the window of the one before
    lastPass,    \* history: the last run of the readFile callback, per root file
    finished,    \* history: the readFile callbacks that have run, per origin
    edits,       \* history: the changes of files so far
    completion   \* the last onCompletion request and the items it returned

env == <<settings, onDisk, rootText, hppText, existing, registry, edits>>
index == <<functions, published, lastPass, finished>>
runner == <<timeouts, issued, runs, rapid>>
query == <<completion>>
vars == <<settings, onDisk, rootText, hppText, existing, registry, functions, files, published,
          timeouts, reading, indexing, issued, runs, rapid, lastPass, finished, edits,
          completion>>

Idle == -1

\* Who asked for a parse: indexWorkspace, or the task of a document.
IndexOrigin == <<"indexWorkspace">>
Origins == Documents \cup {IndexOrigin}

NoPass == [kind |-> "none", threw |-> FALSE, text |-> "", sent |-> <<>>, prev |-> <<>>]

\* No completion was requested yet.
NoCompletion == [request |-> 0, document |-> <<>>, name |-> <<>>,
                 items |-> [c \in {} |-> <<>>]]

\* The module after construction.
InitModule ==
    /\ functions = [r \in {} |-> EmptyTable]
    /\ files = <<>>
    /\ published = [u \in {} |-> <<>>]
    /\ timeouts = [d \in Documents |-> [left |-> Idle, task |-> <<>>]]
    /\ reading = [c \in Roots \X Origins |-> 0]
    /\ indexing = "none"
    /\ issued = [d \in Documents |-> 0]
    /\ runs = [d \in Documents |-> <<>>]
    /\ rapid = [d \in Documents |-> TRUE]
    /\ lastPass = [r \in Roots |-> NoPass]
    /\ finished = [o \in Origins |-> 0]
    /\ edits = 0
    /\ completion = NoCompletion

\* A workspace with the default settings, whose files change as time goes.
Init ==
    /\ settings = DefaultSettings
    /\ onDisk = Roots
    /\ rootText = [r \in Roots |-> IF r = Root1 THEN "inc" ELSE "fns"]
    /\ hppText = "fn"
    /\ existing = {}
    /\ registry = NoRegistry
    /\ InitModule

\* A workspace whose root files declare functions, some under the same name.
DeclaringWorkspace ==
    /\ settings = DefaultSettings
    /\ onDisk = Roots
    /\ rootText \in [Roots -> {"fns", "inc"}]
    /\ hppText = "fn"
    /\ existing = {}
    /\ registry = NoRegistry
    /\ InitModule

\* A root file under scan: any of the registries, any of the include prefixes.
AnyRegistry ==
    /\ settings \in {[DefaultSettings EXCEPT !.includePrefixes = prefixes] :
                        prefixes \in PrefixChoices}
    /\ onDisk = Roots
    /\ rootText = [r \in Roots |-> "fns"]
    /\ hppText = "fn"
    /\ existing = {}
    /\ registry \in ScanRegistries
    /\ InitModule

\* Any workspace, with any of the settings.
AnyWorkspace ==
    /\ settings \in SettingsChoices
    /\ onDisk \in SUBSET Roots
    /\ rootText \in [Roots -> RootTexts]
    /\ hppText \in HppTexts
    /\ existing \in SUBSET FnFiles
    /\ registry = NoRegistry
    /\ InitModule

(***************************************************************************)
(* The environment: files change on disk                                   *)
(***************************************************************************)
\* A root file is given another text.
EditRoot(r, text) ==
    /\ edits < MaxEdits
    /\ text # rootText[r]
    /\ rootText' = [rootText EXCEPT ![r] = text]
    /\ edits' = edits + 1
    /\ UNCHANGED <<settings, onDisk, hppText, existing, registry, index, query,
                 files, runner, reading, indexing>>

\* The header file is given another text.
EditHpp(text) ==
    /\ edits < MaxEdits
    /\ text # hppText
    /\ hppText' = text
    /\ edits' = edits + 1
    /\ UNCHANGED <<settings, onDisk, rootText, existing, registry, index, query,
                 files, runner, reading, indexing>>

\* A script file is created, or deleted.
ChangeFile(f) ==
    /\ edits < MaxEdits
    /\ existing' = IF f \in existing THEN existing \ {f} ELSE existing \cup {f}
    /\ edits' = edits + 1
    /\ UNCHANGED <<settings, onDisk, rootText, hppText, registry, index, query,
                 files, runner, reading, indexing>>

\* A root file is deleted.
DeleteRoot(r) ==
    /\ edits < MaxEdits
    /\ r \in onDisk
    /\ onDisk' = onDisk \ {r}
    /\ edits' = edits + 1
    /\ UNCHANGED <<settings, rootText, hppText, existing, registry, index, query,
                 files, runner, reading, indexing>>

(***************************************************************************)
(* Diagnostics                                                             *)
(***************************************************************************)
\* What one sendDiagnostics call carries.
Push(uri, diagnostics) == [uri |-> uri, diagnostics |-> diagnostics]

\* The last push of `sent` for a URI.
LastPush(sent, uri) ==
    sent[CHOOSE i \in 1..Len(sent) :
            /\ sent[i].uri = uri
            /\ \A j \in (i + 1)..Len(sent) : sent[j].uri # uri]

\* sendDiagnostics, for each push of `sent` in order: the list of a URI
\* replaces the one published for it before.
SendDiagnostics(pub, sent) ==
    [u \in DOMAIN pub \cup {sent[i].uri : i \in 1..Len(sent)} |->
        IF \E i \in 1..Len(sent) : sent[i].uri = u
        THEN LastPush(sent, u).diagnostics ELSE pub[u]]

\* As OnFilename, were the hook not to clear anything.
OnFilenameSilent(touched) == <<>>

\* Hpp.onFilename, called for every file the parser touches: an empty list.
OnFilename(touched) == [i \in 1..Len(touched) |-> Push(UriFile(touched[i]), <<>>)]

(***************************************************************************)
(* ExtModule.tryToLoadDocs, processCfgFunctions, process, parseFile        *)
(***************************************************************************)
\* tryToLoadDocs: the info of every function whose file exists and starts
\* with a documentation comment.
TryToLoadDocs(table, onDiskNow) ==
    [k \in DOMAIN table |->
        IF table[k].filename \in onDiskNow /\ table[k].filename \in DocFiles
        THEN [table[k] EXCEPT !.info = "info"] ELSE table[k]]

\* As SetTable, were there one table for all the root files.
SetTableShared(fns, rootFilename, table) ==
    [r \in DOMAIN fns \cup {rootFilename} |-> table]

\* functions[rootFilename] = table
SetTable(fns, rootFilename, table) ==
    [r \in DOMAIN fns \cup {rootFilename} |-> IF r = rootFilename THEN table ELSE fns[r]]

\* The end of processCfgFunctions: the diagnostics are sent and the docs
\* loaded, unless the loops threw.
FinishFunctions(built, rootFilename, fns, onDiskNow) ==
    IF built.threw
    THEN [functions |-> SetTable(fns, rootFilename, built.functions),
          sent |-> <<>>, threw |-> TRUE]
    ELSE [functions |-> SetTable(fns, rootFilename, TryToLoadDocs(built.functions, onDiskNow)),
          sent |-> built.diagnostics, threw |-> FALSE]

\* processCfgFunctions: the tables, the pushes it sends, and whether it threw.
ProcessCfgFunctions(cfgFunctions, rootFilename, fns, prefixes, onDiskNow) ==
    FinishFunctions(Built[cfgFunctions, prefixes, rootFilename, onDiskNow],
                    rootFilename, fns, onDiskNow)

\* process: only a tree with a cfgfunctions class is scanned.
Process(classes, rootFilename, fns, prefixes, onDiskNow) ==
    IF HasClass(classes, CfgFunctionsKey)
    THEN ProcessCfgFunctions(ClassNamed(classes, CfgFunctionsKey), rootFilename, fns,
                             prefixes, onDiskNow)
    ELSE [functions |-> fns, sent |-> <<>>, threw |-> FALSE]

\* The diagnostic of a ParseError.
ParseErrorDiagnostic(error) ==
    [severity |-> "Error", range |-> error.range, message |-> error.message,
     source |-> "sqflint"]

\* The try block after process: the diagnostics of the root file are cleared,
\* unless process threw.
AfterProcess(done, cleared, filename) ==
    IF done.threw
    THEN [kind |-> "tree", threw |-> TRUE, functions |-> done.functions, sent |-> cleared]
    ELSE [kind |-> "tree", threw |-> FALSE, functions |-> done.functions,
          sent |-> cleared \o done.sent \o <<Push(UriFile(filename), <<>>)>>]

\* As Catch, were a ParseError to empty the tables.
CatchEmptying(parsed, cleared, fns) ==
    IF parsed.kind = "ParseError" /\ parsed.error.filename # Undefined
    THEN [kind |-> "ParseError", threw |-> FALSE,
          functions |-> [r \in DOMAIN fns |-> EmptyTable],
          sent |-> cleared \o <<Push(UriFile(parsed.error.filename),
                                     <<ParseErrorDiagnostic(parsed.error)>>)>>]
    ELSE [kind |-> parsed.kind, threw |-> FALSE, functions |-> fns, sent |-> cleared]

\* As Catch, were the files the parser touched cleared after the report, not before.
CatchThenCleared(parsed, cleared, fns) ==
    IF parsed.kind = "ParseError" /\ parsed.error.filename # Undefined
    THEN [kind |-> "ParseError", threw |-> FALSE, functions |-> fns,
          sent |-> <<Push(UriFile(parsed.error.filename),
                          <<ParseErrorDiagnostic(parsed.error)>>)>> \o cleared]
    ELSE [kind |-> parsed.kind, threw |-> FALSE, functions |-> fns, sent |-> cleared]

\* The catch block: a ParseError with a filename is reported at its file.
Catch(parsed, cleared, fns) ==
    IF parsed.kind = "ParseError" /\ parsed.error.filename # Undefined
    THEN [kind |-> "ParseError", threw |-> FALSE, functions |-> fns,
          sent |-> cleared \o <<Push(UriFile(parsed.error.filename),
                                     <<ParseErrorDiagnostic(parsed.error)>>)>>]
    ELSE [kind |-> parsed.kind, threw |-> FALSE, functions |-> fns, sent |-> cleared]

\* The try block and its catch, from what Hpp.parse gave.
TryProcess(parsed, filename, fns, prefixes, onDiskNow) ==
    IF parsed.kind = "tree"
    THEN AfterProcess(Process(parsed.classes, filename, fns, prefixes, onDiskNow),
                      OnFilename(parsed.touched), filename)
    ELSE Catch(parsed, OnFilename(parsed.touched), fns)

\* The callback of fs.readFile in parseFile.
ParseFileCallback(filename, text, hpp, fns, prefixes, onDiskNow) ==
    TryProcess(Parsed[filename, text, hpp], filename, fns, prefixes, onDiskNow)

(***************************************************************************)
(* ExtModule.parse, parseFile: reading the root file                       *)
(***************************************************************************)
\* parseFile(filename): fs.readFile is called; its callback is due.
ParseFile(rd, filename, origin) ==
    [rd EXCEPT ![<<filename, origin>>] = @ + 1]

\* parse(file): parseFile if the file exists.
Parse(rd, file, origin) ==
    IF file \in onDisk THEN ParseFile(rd, file, origin) ELSE rd

\* this.files.forEach(item => this.parse(item))
RECURSIVE ParseEach(_, _, _)
ParseEach(rd, items, origin) ==
    IF items = <<>> THEN rd
    ELSE ParseEach(Parse(rd, Head(items), origin), Tail(items), origin)

\* What an indexing pass of root file r leaves.
Passed(r, pass) ==
    /\ functions' = pass.functions
    /\ published' = SendDiagnostics(published, pass.sent)
    /\ lastPass' = [lastPass EXCEPT ![r] =
           [kind |-> pass.kind, threw |-> pass.threw, text |-> rootText[r],
            sent |-> pass.sent, prev |-> lastPass[r].sent]]

\* The callback of fs.readFile for a root file whose tree holds the registry
\* under scan: process finds it and processCfgFunctions scans it.
Scan(r) ==
    /\ finished[IndexOrigin] < MaxScans
    /\ \E pass \in {AfterProcess(
                        FinishFunctions(
                            BuildFunctions(registry, settings.includePrefixes, r, existing),
                            r, functions, existing),
                        OnFilename(<<r>>), r)} :
            Passed(r, pass)
    /\ finished' = [finished EXCEPT ![IndexOrigin] = @ + 1]
    /\ UNCHANGED <<env, query, files, runner, reading, indexing>>

\* As ReadFileCallback, were an error in one pass to end the reads still due.
ReadFileCallbackAborting(r, o) ==
    /\ reading[<<r, o>>] > 0
    /\ \E pass \in {ParseFileCallback(r, rootText[r], hppText, functions,
                                        settings.includePrefixes, existing)} :
            Passed(r, pass)
    /\ reading' = IF lastPass'[r].kind # "tree" \/ lastPass'[r].threw
                  THEN [c \in Roots \X Origins |-> 0]
                  ELSE [reading EXCEPT ![<<r, o>>] = @ - 1]
    /\ finished' = [finished EXCEPT ![o] = @ + 1]
    /\ UNCHANGED <<env, query, files, runner, indexing>>

\* The callback of fs.readFile runs: one indexing pass of a root file.
ReadFileCallback(r, o) ==
    /\ reading[<<r, o>>] > 0
    /\ \E pass \in {ParseFileCallback(r, rootText[r], hppText, functions,
                                        settings.includePrefixes, existing)} :
            Passed(r, pass)
    /\ reading' = [reading EXCEPT ![<<r, o>>] = @ - 1]
    /\ finished' = [finished EXCEPT ![o] = @ + 1]
    /\ UNCHANGED <<env, query, files, runner, indexing>>

(***************************************************************************)
(* ExtModule.indexWorkspace                                                *)
(***************************************************************************)
\* settings.descriptionFiles, each resolved against the workspace root.
PredefinedFiles ==
    [i \in 1..Len(settings.descriptionFiles) |->
        IF IsAbsolute(settings.descriptionFiles[i]) THEN settings.descriptionFiles[i]
        ELSE InWorkspace[settings.descriptionFiles[i]]]

\* What glob finds: the description.ext files on disk that are not excluded.
Discovered ==
    (IF Root1 \in onDisk /\ RelRoot1 \notin settings.exclude THEN <<RelRoot1>> ELSE <<>>)
    \o (IF Root2 \in onDisk /\ RelRoot2 \notin settings.exclude THEN <<RelRoot2>> ELSE <<>>)

\* The list is stored, every file of it is parsed, and the promise resolves.
IndexFiles(list) ==
    /\ files' = list
    /\ reading' = ParseEach(reading, list, IndexOrigin)
    /\ indexing' = "resolved"

\* indexWorkspace(root) is called: with discovery, glob starts; without it the
\* conventional root file is added if it exists, and the files are parsed.
IndexWorkspace ==
    /\ indexing = "none"
    /\ IF settings.discoverDescriptionFiles
       THEN /\ indexing' = "globbing"
            /\ UNCHANGED <<files, reading>>
       ELSE IndexFiles(PredefinedFiles \o
                (IF InWorkspace[<<"description.ext">>] \in onDisk
                 THEN <<InWorkspace[<<"description.ext">>]>> ELSE <<>>))
    /\ UNCHANGED <<env, query, index, runner>>

\* The callback of glob.  With an error glob may pass no matches, and
\* discovered.map throws out of the callback: the promise never resolves.
GlobCallback(err, undefinedMatches) ==
    /\ indexing = "globbing"
    /\ undefinedMatches => err
    /\ IF undefinedMatches
       THEN /\ indexing' = "thrown"
            /\ UNCHANGED <<files, reading>>
       ELSE IndexFiles(PredefinedFiles \o
                [i \in 1..Len(Discovered) |-> InWorkspace[Discovered[i]]])
    /\ UNCHANGED <<env, query, index, runner>>

(***************************************************************************)
(* SingleRunner and ExtModule.parseDocument                                *)
(***************************************************************************)
NoTimer == [left |-> Idle, task |-> <<>>]

Requests == issued[UriFile(Root1)] + issued[UriFile(Root2)]
            + issued[UriFile(HppFile)] + issued[UriFile(SqfFile)]

\* As RunnerKey, were the key left out of the call: every document shares one timer.
RunnerKeyShared(d) == UriFile(SqfFile)

\* The key parseDocument hands to the runner.
RunnerKey(d) == d

\* SingleRunner.run(task, key): a pending timer of the key is cleared, and a
\* new one is set for the task.
RunnerRun(ts, key, task) == [ts EXCEPT ![key] = [left |-> Timeout, task |-> task]]

\* As ParseDocument, were the task also run at once, not only when the timer fires.
ParseDocumentEager(d) ==
    /\ timeouts' = RunnerRun(timeouts, RunnerKey(d), d)
    /\ issued' = [issued EXCEPT ![d] = @ + 1]
    /\ rapid' = [rapid EXCEPT ![d] = @ /\ (issued[d] = 0 \/ timeouts[RunnerKey(d)].left > 0)]
    /\ runs' = [runs EXCEPT ![d] = Append(@, issued[d] + 1)]
    /\ UNCHANGED <<env, query, index, files, reading, indexing>>

\* As ParseDocument, were a new request to drop the reads its document has in flight.
ParseDocumentAborting(d) ==
    /\ timeouts' = RunnerRun(timeouts, RunnerKey(d), d)
    /\ issued' = [issued EXCEPT ![d] = @ + 1]
    /\ rapid' = [rapid EXCEPT ![d] = @ /\ (issued[d] = 0 \/ timeouts[RunnerKey(d)].left > 0)]
    /\ reading' = [c \in Roots \X Origins |-> IF c[2] = d THEN 0 ELSE reading[c]]
    /\ UNCHANGED <<env, query, index, files, indexing, runs>>

\* parseDocument(textDocument): the task is handed to the runner.
ParseDocument(d) ==
    /\ timeouts' = RunnerRun(timeouts, RunnerKey(d), d)
    /\ issued' = [issued EXCEPT ![d] = @ + 1]
    /\ rapid' = [rapid EXCEPT ![d] = @ /\ (issued[d] = 0 \/ timeouts[RunnerKey(d)].left > 0)]
    /\ UNCHANGED <<env, query, index, files, reading, indexing, runs>>

\* Time passes: every pending timer has TickMs less to wait.
Tick ==
    /\ \E k \in Documents : timeouts[k].left > 0
    /\ timeouts' = [k \in Documents |->
          IF timeouts[k].left > 0
          THEN [timeouts[k] EXCEPT !.left = IF @ > TickMs THEN @ - TickMs ELSE 0]
          ELSE timeouts[k]]
    /\ UNCHANGED <<env, query, index, files, reading, indexing, issued, runs, rapid>>

\* As Task, were the change of a root file to make every known root file be parsed.
TaskOfAll(rd, d) ==
    IF NameOf[d].basename = <<"description.ext">> \/ NameOf[d].extname = <<".hpp">>
    THEN ParseEach(rd, files, d)
    ELSE rd

\* The task of parseDocument for document d: a root file is parsed, a header
\* file makes every known root file be parsed, anything else does nothing.
Task(rd, d) ==
    IF NameOf[d].basename = <<"description.ext">> THEN ParseFile(rd, FsPath(d), d)
    ELSE IF NameOf[d].extname = <<".hpp">> THEN ParseEach(rd, files, d)
    ELSE rd

\* The timer of a key fires: it is deleted and its task runs.
TimerFires(k) ==
    /\ timeouts[k].left = 0
    /\ reading' = Task(reading, timeouts[k].task)
    /\ runs' = [runs EXCEPT ![timeouts[k].task] = Append(@, issued[timeouts[k].task])]
    /\ timeouts' = [timeouts EXCEPT ![k] = NoTimer]
    /\ UNCHANGED <<env, query, index, files, indexing, issued, rapid>>

(***************************************************************************)
(* ExtModule.onCompletion                                                  *)
(***************************************************************************)
\* this.documentation, once loadDocumentation has read the definitions: the
\* entries by lower-cased name.
Documentation ==
    [ident \in {<<"a", "uthor">>, <<"respawn">>} |->
        IF ident = <<"a", "uthor">>
        THEN [name |-> <<"A", "uthor">>, type |-> "String", description |-> "d1"]
        ELSE [name |-> <<"respawn">>, type |-> "Number", description |-> "d2"]]

\* What the editor can have typed before the cursor.
TypedNames ==
    { <<>>, <<"m", "y", "_fnc_">>, <<"M", "Y", "_fnc_">>, <<"t", "g", "_fnc_", "d">>,
      <<"T", "g">>, <<"a">>, <<"x">> }

\* ident.length >= name.length && ident.substr(0, name.length) == name
IdentStartsWith(ident, name) ==
    Len(ident) >= Len(name) /\ SubSeq(ident, 1, Len(name)) = name

\* The completion item of a function.
FunctionItem(ident, fnc) ==
    [label |-> fnc.name, data |-> ident, filterText |-> fnc.name,
     insertText |-> fnc.name, kind |-> "Function"]

\* The replacement string of a documentation entry, by its type.
ReplaceOf(value) ==
    CASE value.type = "String" -> value.name \o <<" = \"">>
      [] value.type \in {"Array", "Array of strings"} -> value.name \o <<"[] = {">>
      [] value.type = "Class" -> <<"class ">> \o value.name \o <<"\n{\n">>
      [] OTHER -> value.name \o <<" = ">>

\* The completion item of a documentation entry.
PropertyItem(ident, value) ==
    [label |-> value.name, data |-> ident, filterText |-> ReplaceOf(value),
     insertText |-> ReplaceOf(value), kind |-> "Property"]

\* The functions whose item is pushed, each by its table and its key.
FunctionMatches(fns, name) ==
    {c \in UNION {{<<file, ident>> : ident \in DOMAIN fns[file]} : file \in DOMAIN fns} :
        IdentStartsWith(c[2], name)}

\* The documentation entries whose item is pushed.
PropertyMatches(name) ==
    {<<<<"documentation">>, ident>> : ident \in {i \in DOMAIN Documentation : IdentStartsWith(i, name)}}

\* As OnCompletionItems, were the typed name lower-cased before it is compared.
OnCompletionItemsAnyCase(fns, uri, name) ==
    [c \in (IF ToLowerCase(Extname(uri)) = <<".sqf">>
             THEN FunctionMatches(fns, ToLowerCase(name)) ELSE {})
            \cup (IF ToLowerCase(Basename(uri)) = <<"description.ext">>
                  THEN PropertyMatches(ToLowerCase(name)) ELSE {}) |->
        IF c[1] = <<"documentation">> THEN PropertyItem(c[2], Documentation[c[2]])
        ELSE FunctionItem(c[2], fns[c[1]][c[2]])]

\* The items onCompletion returns, each under the table and the key it was
\* pushed for.
OnCompletionItems(fns, uri, name) ==
    [c \in (IF ToLowerCase(Extname(uri)) = <<".sqf">>
             THEN FunctionMatches(fns, name) ELSE {})
            \cup (IF ToLowerCase(Basename(uri)) = <<"description.ext">>
                  THEN PropertyMatches(name) ELSE {}) |->
        IF c[1] = <<"documentation">> THEN PropertyItem(c[2], Documentation[c[2]])
        ELSE FunctionItem(c[2], fns[c[1]][c[2]])]

\* onCompletion(params, name)
OnCompletion(d, name) ==
    /\ completion.request < MaxCompletions
    /\ completion' = [request |-> completion.request + 1, document |-> d, name |-> name,
                      items |-> OnCompletionItems(functions, d, name)]
    /\ UNCHANGED <<env, index, files, runner, reading, indexing>>

(***************************************************************************)
(* The specifications                                                      *)
(***************************************************************************)
\* The files of the workspace change.
FilesChange ==
    \/ \E r \in Roots, text \in RootTexts : EditRoot(r, text)
    \/ \E text \in HppTexts : EditHpp(text)
    \/ \E f \in FnFiles : ChangeFile(f)
    \/ \E r \in Roots : DeleteRoot(r)

\* The workspace is indexed.
Indexes ==
    \/ IndexWorkspace
    \/ \E err \in BOOLEAN, undefinedMatches \in BOOLEAN : GlobCallback(err, undefinedMatches)
    \/ \E r \in Roots, o \in Origins : ReadFileCallback(r, o)

\* The timers of the runner.
Timers ==
    \/ Tick
    \/ \E k \in Documents : TimerFires(k)

\* The language server in a workspace whose files change.
Next ==
    \/ FilesChange
    \/ Indexes
    \/ (Requests < MaxRequests /\ \E d \in Documents : ParseDocument(d))
    \/ Timers

Spec == Init /\ [][Next]_vars

\* The indexing of a workspace, whatever it holds.
IndexNext == Indexes

IndexSpec == AnyWorkspace /\ [][IndexNext]_vars

\* The scan of the registry of a root file, whatever the registry holds.
ScanNext == \E r \in Roots : Scan(r)

ScanSpec == AnyRegistry /\ [][ScanNext]_vars

\* The editor asks for completions while the workspace is indexed.
QueryNext ==
    \/ Indexes
    \/ \E d \in Documents, name \in TypedNames : OnCompletion(d, name)

QuerySpec == DeclaringWorkspace /\ [][QueryNext]_vars

\* The callbacks of glob and of fs.readFile.
Callbacks ==
    \/ \E err \in BOOLEAN, undefinedMatches \in BOOLEAN : GlobCallback(err, undefinedMatches)
    \/ \E r \in Roots, o \in Origins : ReadFileCallback(r, o)

\* Node's event loop does not stop while a callback is due.
IndexFairness == WF_vars(Callbacks)

IndexFair == IndexSpec /\ IndexFairness

\* The language server as documents change in the editor, the files at rest.
ReparseNext ==
    \/ Indexes
    \/ (Requests < MaxBurst /\ \E d \in Documents : ParseDocument(d))
    \/ Timers

ReparseSpec == Init /\ [][ReparseNext]_vars

\* Time passes, and Node's event loop does not stop while a timer or a callback is due.
ReparseFair == ReparseSpec /\ WF_vars(Callbacks \/ Timers)

(***************************************************************************)
(* What the claims speak of                                                *)
(***************************************************************************)
Range(seq) == {seq[i] : i \in 1..Len(seq)}

\* The documents that are root files.
RootDocuments == {UriFile(r) : r \in Roots}

\* The table of a root file: nothing when it has none.
TableOf(r) == IF r \in DOMAIN functions THEN functions[r] ELSE EmptyTable

\* The names of the functions in the table of a root file.
NamesIn(r) == {TableOf(r)[k].name : k \in DOMAIN TableOf(r)}

\* The function classes a root file declares when it holds `text`.
Declared(r, text) ==
    IF HasClass(TreeOf(r, text), CfgFunctionsKey)
    THEN Range(OverTags(ClassNamed(TreeOf(r, text), CfgFunctionsKey).classes))
    ELSE {}

\* The file a declared function resolves to.
FileOf(r, e) ==
    ResolveFilename(settings.includePrefixes, Dirname(r), RelativeFilename(e))

\* The diagnostics of list `ds` that report the file of function e of root r missing.
MissingReports(ds, r, e) ==
    {i \in 1..Len(ds) :
        /\ ds[i].severity = "Error"
        /\ ds[i].message = <<"Failed to find ">> \o FileOf(r, e) \o <<" for function ">>
                           \o FullFunctionName(e) \o <<".">>}

\* The list published for a URI: nothing when none was.
PublishedAt(pub, uri) == IF uri \in DOMAIN pub THEN pub[uri] ELSE <<>>

\* A step that is an indexing pass of root file r.
IsPass(r) == \E o \in Origins : reading'[<<r, o>>] < reading[<<r, o>>]

\* The request whose task ran last for document d (0: none ran).
LastRun(d) == IF runs[d] = <<>> THEN 0 ELSE runs[d][Len(runs[d])]

\* The reads of origin o in flight.
InFlight(o) == reading[<<Root1, o>>] + reading[<<Root2, o>>]

(***************************************************************************)
(* The claims                                                              *)
(***************************************************************************)
\* C1: when every request for a document came within the debounce window of the
\* one before and before its task started, the task has run exactly once when
\* the timer is gone, as the task of the last request, and not at all before.
C1_DebouncedOnce ==
    \A d \in Documents :
        (issued[d] >= 1 /\ rapid[d]) =>
            IF timeouts[d].left = Idle THEN runs[d] = <<issued[d]>> ELSE runs[d] = <<>>

C1_Witness ==
    \E d \in Documents : issued[d] >= 3 /\ rapid[d] /\ runs[d] = <<issued[d]>>

\* C2: whatever is requested for the other documents, the requests for a
\* document end with the task of its last request having run, as its last run.
C2_KeysIndependent ==
    \A d \in Documents : <>[](issued[d] > 0 => LastRun(d) = issued[d])

C2_Witness ==
    \E a, b \in Documents :
        /\ a # b
        /\ issued[a] >= 2 /\ timeouts[a].left > 0
        /\ issued[b] = 1 /\ runs[b] = <<1>>

C4_ResolvesAfterAllAttempted ==
    indexing = "resolved" => \A r \in Roots : reading[<<r, IndexOrigin>>] = 0

\* C5: once indexWorkspace has gone through its files, every file of the list
\* that exists is passed, whatever the passes of the other files come to.
C5_EveryRootAttempted ==
    \A r \in Roots :
        (indexing = "resolved" /\ r \in Range(files) /\ r \in onDisk)
            ~> (lastPass[r].kind # "none")

C5_Witness ==
    \E a, b \in Roots :
        /\ a # b
        /\ {a, b} \subseteq Range(files)
        /\ (lastPass[a].kind = "ParseError" \/ lastPass[a].threw)
        /\ lastPass[b].kind = "tree" /\ ~lastPass[b].threw
        /\ InFlight(IndexOrigin) = 0

\* C6: every key of every table is the lower-cased name of the record under it.
C6_KeysLowerCased ==
    \A r \in DOMAIN functions : \A k \in DOMAIN functions[r] :
        k = ToLowerCase(functions[r][k].name)

C6_Witness ==
    \E r \in DOMAIN functions : \E k \in DOMAIN functions[r] :
        functions[r][k].name # k

\* C7: after a pass of a root file that parsed and did not throw, its table
\* holds exactly the functions its tree declares.
C7_TableReplaced ==
    \A r \in Roots :
        (lastPass[r].kind = "tree" /\ ~lastPass[r].threw) =>
            NamesIn(r) = {FullFunctionName(e) : e \in Declared(r, lastPass[r].text)}

\* C8: after a pass of a root file whose tree has no cfgfunctions class, its
\* table holds no function and the pass sent no missing-file diagnostic.
C8_NoRegistryEmptyTable ==
    \A r \in Roots :
        (lastPass[r].kind = "tree" /\ ~HasClass(TreeOf(r, lastPass[r].text), CfgFunctionsKey)) =>
            /\ DOMAIN TableOf(r) = {}
            /\ \A i \in 1..Len(lastPass[r].sent) : lastPass[r].sent[i].diagnostics = <<>>

\* C9: after a pass of a root file that parsed and did not throw, every function
\* it declares whose file does not exist has exactly one diagnostic in the list
\* published for the URI of its declaration site, and is in the table.
C9_MissingFileReported ==
    [][\A r \in Roots :
         (IsPass(r) /\ lastPass'[r].kind = "tree" /\ ~lastPass'[r].threw) =>
            \A e \in Declared(r, rootText[r]) :
                FileOf(r, e) \notin existing =>
                    /\ Cardinality(MissingReports(
                           PublishedAt(published', DiagnosticUri(e.function, r)), r, e)) = 1
                    /\ FunctionKey(FullFunctionName(e)) \in DOMAIN functions'[r]]_vars

\* C10: when the last pass of a root file reported the file of a function
\* missing, the file exists now and the root file holds what it held, the next
\* pass sends an empty list for the URI of the report, no report of the function
\* stays published there, and the function is in the table.
C10_MissingFileCleared ==
    [][\A r \in Roots :
         (IsPass(r) /\ rootText[r] = lastPass[r].text) =>
            \A e \in Declared(r, rootText[r]) : \A i \in 1..Len(lastPass[r].sent) :
                (/\ MissingReports(lastPass[r].sent[i].diagnostics, r, e) # {}
                 /\ FileOf(r, e) \in existing) =>
                    /\ Push(lastPass[r].sent[i].uri, <<>>) \in Range(lastPass'[r].sent)
                    /\ MissingReports(
                           PublishedAt(published', lastPass[r].sent[i].uri), r, e) = {}
                    /\ FunctionKey(FullFunctionName(e)) \in DOMAIN TableOf(r)']_vars

C10_Witness ==
    \E r \in Roots : \E e \in Declared(r, lastPass[r].text) :
        /\ \E i \in 1..Len(lastPass[r].prev) :
              /\ MissingReports(lastPass[r].prev[i].diagnostics, r, e) # {}
              /\ Push(lastPass[r].prev[i].uri, <<>>) \in Range(lastPass[r].sent)
              /\ MissingReports(PublishedAt(published, lastPass[r].prev[i].uri), r, e) = {}
        /\ FileOf(r, e) \in existing
        /\ FunctionKey(FullFunctionName(e)) \in DOMAIN TableOf(r)
        /\ \A i \in 1..Len(lastPass[r].sent) :
              MissingReports(lastPass[r].sent[i].diagnostics, r, e) = {}

(***************************************************************************)
(* C11: a ParseError is reported at the file it stems from                 *)
(***************************************************************************)
\* The ParseError that parsing root file r gives now.
ErrorOf(r) == Parsed[r, rootText[r], hppText].error

\* C11: when the pass of a root file ends in a ParseError that carries the
\* file it stems from, the list published for that file (the root file or the
\* included one) when the pass ends is exactly one Error diagnostic with the
\* range and the message of the error, and the callback runs to its end:
\* nothing is thrown out of it.
C11_ParseErrorReported ==
    [][\A r \in Roots :
          (IsPass(r) /\ Parsed[r, rootText[r], hppText].kind = "ParseError"
                     /\ ErrorOf(r).filename # Undefined) =>
             /\ PublishedAt(published', UriFile(ErrorOf(r).filename))
                   = <<[severity |-> "Error", range |-> ErrorOf(r).range,
                        message |-> ErrorOf(r).message, source |-> "sqflint"]>>
             /\ lastPass'[r].kind = "ParseError"
             /\ ~lastPass'[r].threw
             /\ \E o \in Origins : finished'[o] = finished[o] + 1]_vars

\* The pass of one root file has failed in the included file and the pass of
\* the other in the root file itself, and both errors are published.
C11_Witness ==
    /\ lastPass[Root1].kind = "ParseError" /\ lastPass[Root2].kind = "ParseError"
    /\ rootText[Root1] = "inc" /\ hppText = "bad" /\ rootText[Root2] = "bad"
    /\ Len(PublishedAt(published, UriFile(HppFile))) = 1
    /\ PublishedAt(published, UriFile(HppFile))[1].range = "E2"
    /\ Len(PublishedAt(published, UriFile(Root2))) = 1
    /\ PublishedAt(published, UriFile(Root2))[1].range = "E1"

(***************************************************************************)
(* C12..C15: names and files of the scanned functions                      *)
(***************************************************************************)
\* The root file r has been scanned.
Scanned(r) == lastPass[r].kind = "tree"

\* The function classes of the registry under scan.
ScanEntries == Range(OverTags(registry.classes))

\* The class has a variable `key`, whatever its value.
HasVar(class, key) == key \in DOMAIN class.variables

\* No include prefix is a prefix of the filename.
NoPrefixMatches(filename) ==
    \A i \in 1..Len(settings.includePrefixes) :
        ~StartsWith(filename, settings.includePrefixes[i].prefix)

\* <categoryPath>/fn_<name><ext>
FileUnder(categoryPath, name, ext) == categoryPath \o <<"/", "fn_">> \o name \o ext

\* <rootDir>/<relative>
UnderRootOf(r, relative) ==
    (IF r = Root1 THEN <<"/", "w">> ELSE <<"/", "w", "/", "m">>) \o <<"/">> \o relative

\* The table of root file r holds a record of that name and that file.
Recorded(r, name, filename) ==
    \E k \in DOMAIN TableOf(r) :
        TableOf(r)[k].name = name /\ TableOf(r)[k].filename = filename

\* A function class with no override on its category nor on itself, whose
\* default file no include prefix matches.
WithoutOverride(e) ==
    /\ ~HasVar(e.category, "tag") /\ ~HasVar(e.category, "file")
    /\ ~HasVar(e.function, "ext") /\ ~HasVar(e.function, "file")
    /\ NoPrefixMatches(FileUnder(<<"functions", "/">> \o e.category.name,
                                  e.function.name, <<".sqf">>))

\* Every function class without override is recorded as <tagName>_fnc_<n>
\* with the file <rootDir>/functions/<C>/fn_<n>.sqf.
DefaultsRecorded(r, e, tagName) ==
    Recorded(r, tagName \o <<"_fnc_">> \o e.function.name,
             UnderRootOf(r, FileUnder(<<"functions", "/">> \o e.category.name,
                                      e.function.name, <<".sqf">>)))

\* C12, as stated: every function class without override (and whose default
\* file no include prefix matches) is recorded as T_fnc_n with the file
\* <rootDir>/functions/C/fn_n.sqf, T being the tag variable of the group if
\* the group has one and the class name of the group otherwise.
C12_DefaultNamingAsStated ==
    \A r \in Roots : Scanned(r) =>
        \A e \in ScanEntries : WithoutOverride(e) =>
            DefaultsRecorded(r, e, IF HasVar(e.tag, "tag") THEN e.tag.variables["tag"].value
                                   ELSE e.tag.name)

\* C12, amended: the same, T being the tag variable of the group if the group
\* has one that is not the empty string, and the class name of the group
\* otherwise.
C12_DefaultNaming ==
    \A r \in Roots : Scanned(r) =>
        \A e \in ScanEntries : WithoutOverride(e) =>
            DefaultsRecorded(r, e, IF HasVar(e.tag, "tag") /\ e.tag.variables["tag"].value # <<>>
                                   THEN e.tag.variables["tag"].value
                                   ELSE e.tag.name)

\* The second root file has been scanned, its group has tag = "MY" and the
\* function doA has no override: it is MY_fnc_doA in functions/Ut/fn_doA.sqf.
C12_Witness ==
    /\ Scanned(Root2)
    /\ \E e \in ScanEntries :
          /\ WithoutOverride(e) /\ e.function.name = <<"d", "o", "A">>
          /\ HasVar(e.tag, "tag") /\ e.tag.variables["tag"].value = <<"M", "Y">>
    /\ Recorded(Root2, <<"M", "Y", "_fnc_", "d", "o", "A">>,
                <<"/", "w", "/", "m", "/", "functions", "/", "U", "t", "/",
                  "fn_", "d", "o", "A", ".sqf">>)

\* The function class, were its category to have no tag variable.
WithoutCategoryTag(e) ==
    [e EXCEPT !.category.variables = [k \in (DOMAIN @) \ {"tag"} |-> @[k]]]

\* The function class is in a category without tag variable, next to a
\* category of the same group that has one.
SiblingOfTagged(e) ==
    /\ ~HasVar(e.category, "tag")
    /\ \E other \in ScanEntries : other.tag = e.tag /\ HasVar(other.category, "tag")

\* The function class has no file override on its category nor on itself,
\* and no include prefix matches its default file.
DefaultFile(e) ==
    /\ ~HasVar(e.category, "file") /\ ~HasVar(e.function, "file")
    /\ NoPrefixMatches(FileUnder(<<"functions", "/">> \o e.category.name,
                                  e.function.name, ExtOf(e.function)))

\* What C13 says of root file r, the tag of a category with a tag variable
\* being categoryTag(e).
CategoryTagOnlyNames(r, categoryTag(_)) ==
    \A e \in ScanEntries :
        /\ HasVar(e.category, "tag") =>
              /\ Recorded(r, categoryTag(e) \o <<"_fnc_">> \o e.function.name,
                          FileOf(r, WithoutCategoryTag(e)))
              /\ DefaultFile(e) =>
                    Recorded(r, categoryTag(e) \o <<"_fnc_">> \o e.function.name,
                             UnderRootOf(r, FileUnder(<<"functions", "/">> \o e.category.name,
                                                      e.function.name, ExtOf(e.function))))
        /\ SiblingOfTagged(e) =>
              TagOf(e.tag) \o <<"_fnc_">> \o e.function.name \in NamesIn(r)

\* The value of the tag variable of the category.
CategoryTagAsStated(e) == e.category.variables["tag"].value

\* The value of the tag variable of the category, or the tag of the group
\* when that value is the empty string.
CategoryTagNonEmpty(e) ==
    IF e.category.variables["tag"].value # <<>> THEN e.category.variables["tag"].value
    ELSE TagOf(e.tag)

\* C13, as stated: every function of a category with a tag variable is named
\* <categoryTag>_fnc_<name>, its file is the one it would have without that
\* variable (by default <rootDir>/functions/<category>/fn_<name><ext>), and
\* the functions of the sibling categories keep the tag of the group.
C13_CategoryTagAsStated ==
    \A r \in Roots : Scanned(r) => CategoryTagOnlyNames(r, CategoryTagAsStated)

\* C13, amended: the same for a tag variable that is not the empty string; an
\* empty one changes nothing, the functions of the category keep the tag of
\* the group.
C13_CategoryTag ==
    \A r \in Roots : Scanned(r) => CategoryTagOnlyNames(r, CategoryTagNonEmpty)

\* The first root file has been scanned: the category Ut has tag = "CT" in a
\* group with tag = "MY"; doA is CT_fnc_doA in functions/Ut and the function
\* run of the sibling category is MY_fnc_run.
C13_Witness ==
    /\ Scanned(Root1)
    /\ \E e \in ScanEntries :
          /\ HasVar(e.category, "tag") /\ e.category.variables["tag"].value = <<"C", "T">>
          /\ DefaultFile(e) /\ TagOf(e.tag) = <<"M", "Y">>
    /\ Recorded(Root1, <<"C", "T", "_fnc_", "d", "o", "A">>,
                <<"/", "w", "/", "functions", "/", "U", "t", "/", "fn_", "d", "o", "A", ".sqf">>)
    /\ <<"M", "Y", "_fnc_", "run">> \in NamesIn(Root1)

\* The function classes under scan whose file variable is one of `values`.
WithFileIn(values) ==
    {e \in ScanEntries : HasVar(e.function, "file") /\ e.function.variables["file"].value \in values}

\* The value of the file variable of function class e is what is resolved
\* for root file r, by the rule of the include prefixes and the root directory.
FileVariableResolved(r, e) ==
    Recorded(r, FullFunctionName(e),
             ResolveFilename(settings.includePrefixes, Dirname(r),
                             e.function.variables["file"].value))

\* C14, as stated: the file of a function class with a file variable is the
\* value of that variable, whatever it is, resolved against the include
\* prefixes and the root directory; the category and the ext variable have
\* no part in it.
C14_FileOverrideAsStated ==
    \A r \in Roots : Scanned(r) =>
        \A e \in WithFileIn({<<>>, <<"x", ".sqf">>, PrefixedFile}) : FileVariableResolved(r, e)

\* C14, amended: the same for a file variable that is not the empty string.
C14_FileOverride ==
    \A r \in Roots : Scanned(r) =>
        \A e \in WithFileIn({<<"x", ".sqf">>, PrefixedFile}) : FileVariableResolved(r, e)

\* The second root file has been scanned with \A3\ mapped to /data: a
\* function with file = "\A3\foo.sqf" and an ext variable, in a category with
\* a file variable, is recorded with the file /datafoo.sqf.
C14_Witness ==
    /\ Scanned(Root2)
    /\ \E e \in WithFileIn({PrefixedFile}) :
          /\ HasVar(e.function, "ext") /\ HasVar(e.category, "file")
          /\ Recorded(Root2, FullFunctionName(e), <<"/", "data", "foo", ".sqf">>)

\* The include prefixes the filename starts with, by their place in the list.
Matching(filename) ==
    {i \in 1..Len(settings.includePrefixes) :
        StartsWith(filename, settings.includePrefixes[i].prefix)}

\* The filename with the include prefix p put aside and the path it is
\* mapped to in its place, nothing in between.
Replaced(p, filename) == p.path \o SubSeq(filename, Len(p.prefix) + 1, Len(filename))

\* What C15 says the relative filename resolves to for root file r.
ResolvedAsClaimed(r, filename) ==
    IF Matching(filename) = {} THEN PathJoin(Dirname(r), filename)
    ELSE LET p == settings.includePrefixes[
                     CHOOSE i \in Matching(filename) : \A j \in Matching(filename) : i <= j]
         IN  IF p.path[1] = "/" THEN Replaced(p, filename)
             ELSE PathJoin(Dirname(r), Replaced(p, filename))

\* C15: the file recorded for a function is its relative filename with the
\* first include prefix, in declared order, that it starts with replaced by
\* the mapped path: as it is when the mapped path is absolute, joined to the
\* directory of the root file when it is relative; with no matching prefix
\* it is the relative filename joined to the directory of the root file.  No
\* second prefix is applied to the result.
C15_FirstPrefixWins ==
    \A r \in Roots : Scanned(r) =>
        \A e \in ScanEntries :
            Recorded(r, FullFunctionName(e), ResolvedAsClaimed(r, RelativeFilename(e)))

\* The first root file has been scanned with \A mapped to /a declared before
\* \A3\ mapped to /data, and a function with file = "\A3\foo.sqf": the
\* shorter prefix, declared first, is the one replaced.
C15_Witness ==
    /\ Scanned(Root1)
    /\ Len(settings.includePrefixes) = 2
    /\ settings.includePrefixes[1].path = <<"/", "a">>
    /\ \E e \in WithFileIn({PrefixedFile}) :
          /\ Cardinality(Matching(PrefixedFile)) = 2
          /\ Recorded(Root1, FullFunctionName(e), <<"/", "a", "3", "\\", "foo", ".sqf">>)

\* The first root file has been scanned with \A3\ mapped to /a/ and /a mapped
\* to /b: the file is /a/foo.sqf, the second prefix is not applied to it.
C15_WitnessOnce ==
    /\ Scanned(Root1)
    /\ \E e \in WithFileIn({PrefixedFile}) :
          /\ Recorded(Root1, FullFunctionName(e), <<"/", "a", "/", "foo", ".sqf">>)
          /\ \E i \in 1..Len(settings.includePrefixes) :
                settings.includePrefixes[i].prefix = <<"/", "a">>

(***************************************************************************)
(* C16: completion of function names                                       *)
(***************************************************************************)
\* The step is an onCompletion request for a script document.
CompletesScript ==
    /\ completion'.request # completion.request
    /\ Extname(completion'.document) = <<".sqf">>

\* The records of the tables, each by its table and its key.
Records == UNION {{<<r, k>> : k \in DOMAIN functions[r]} : r \in DOMAIN functions}

\* The request returned an item for record c, and one only.
ItemFor(c) ==
    /\ c \in DOMAIN completion'.items
    /\ completion'.items[c].label = functions[c[1]][c[2]].name

\* C16, as stated: for a script document and a typed prefix p, onCompletion
\* returns one item for every record of every table whose name, as declared,
\* starts with p, and none for a record whose name does not.
C16_CompletionAsStated ==
    [][CompletesScript =>
          \A c \in Records :
              ItemFor(c) <=> StartsWith(functions[c[1]][c[2]].name, completion'.name)]_vars

\* C16, amended: for a script document and a typed prefix p, onCompletion
\* returns one item, labelled with the name as declared, for every record of
\* every table whose lower-cased name starts with p, and none for any other
\* record; p itself is compared as typed, so that a prefix with an upper-case
\* letter matches nothing.
C16_Completion ==
    [][CompletesScript =>
          /\ \A c \in Records :
                ItemFor(c) <=> StartsWith(ToLowerCase(functions[c[1]][c[2]].name),
                                          completion'.name)
          /\ DOMAIN completion'.items \subseteq Records]_vars

\* Both root files declare MY_fnc_doA and my_fnc_ was typed in a script: two
\* items, one for the record of each table.
C16_Witness ==
    /\ completion.request > 0
    /\ completion.document = UriFile(SqfFile)
    /\ completion.name = <<"m", "y", "_fnc_">>
    /\ \A r \in Roots :
          /\ <<r, <<"m", "y", "_fnc_", "d", "o", "a">>>> \in DOMAIN completion.items
          /\ completion.items[<<r, <<"m", "y", "_fnc_", "d", "o", "a">>>>].label
                = <<"M", "Y", "_fnc_", "d", "o", "A">>

(***************************************************************************)
(* C17: what the task of parseDocument re-indexes                          *)
(***************************************************************************)
\* The step runs the task of parseDocument for document d.
TaskRuns(d) == Len(runs'[d]) = Len(runs[d]) + 1

\* The step starts a pass of root file r for document d: the read is in
\* flight, its callback will parse and scan the file.
Reindexes(r, d) == reading'[<<r, d>>] = reading[<<r, d>>] + 1

\* The step starts no pass of root file r.
LeavesAlone(r) == \A o \in Origins : reading'[<<r, o>>] = reading[<<r, o>>]

\* The step changes no table and nothing published.
NothingIndexed == functions' = functions /\ published' = published

\* The task of a root file starts a pass of that root file and of no other;
\* the task of any other document that is not a header file starts none.
\* The task itself changes no table and publishes nothing.
TaskOfRootOrOther(d) ==
    /\ d \in RootDocuments =>
          /\ Reindexes(FsPath(d), d)
          /\ \A r \in Roots \ {FsPath(d)} : LeavesAlone(r)
    /\ d \notin RootDocuments \cup {UriFile(HppFile)} => \A r \in Roots : LeavesAlone(r)
    /\ NothingIndexed

\* C17, as stated: the task of a root file re-indexes exactly that root file;
\* the task of a header file re-indexes every root file of the known list;
\* the task of any other document re-indexes none and leaves the tables and
\* the published diagnostics as they are.
C17_TaskReindexesAsStated ==
    [][\A d \in Documents : TaskRuns(d) =>
          /\ TaskOfRootOrOther(d)
          /\ d = UriFile(HppFile) => \A r \in Range(files) : Reindexes(r, d)]_vars

\* C17, amended: the same, the task of a header file re-indexing every root
\* file of the known list that exists on disk, and no other.
C17_TaskReindexes ==
    [][\A d \in Documents : TaskRuns(d) =>
          /\ TaskOfRootOrOther(d)
          /\ d = UriFile(HppFile) =>
                \A r \in Roots :
                    IF r \in Range(files) /\ r \in onDisk THEN Reindexes(r, d)
                    ELSE LeavesAlone(r)]_vars

\* The task of the header file has run with both root files known and on
\* disk: the reads of both are in flight.
C17_Witness ==
    /\ runs[UriFile(HppFile)] # <<>>
    /\ files = <<Root1, Root2>>
    /\ reading[<<Root1, UriFile(HppFile)>>] = 1
    /\ reading[<<Root2, UriFile(HppFile)>>] = 1

(***************************************************************************)
(* C18: one table per root file                                            *)
(***************************************************************************)
\* The step leaves the table of root file b as it is.
TableKept(b) ==
    /\ (b \in DOMAIN functions') = (b \in DOMAIN functions)
    /\ b \in DOMAIN functions => functions'[b] = functions[b]

\* The last pass of root file r scanned a registry to its end.
ScannedRegistry(r) ==
    /\ lastPass[r].kind = "tree" /\ ~lastPass[r].threw
    /\ Declared(r, lastPass[r].text) # {}

\* C18: a pass of a root file, whether it scans a registry, finds none or
\* fails, changes the table of no other root file; and a root file whose
\* registry was scanned holds, for every function it declares, its own record
\* with the file resolved against its own directory, also when the other root
\* file declares a function of the same name.
C18_TablesPerRoot ==
    /\ [][\A r \in Roots : IsPass(r) => \A b \in Roots \ {r} : TableKept(b)]_vars
    /\ [](\A r \in Roots : ScannedRegistry(r) =>
             \A e \in Declared(r, lastPass[r].text) :
                 /\ FunctionKey(FullFunctionName(e)) \in DOMAIN TableOf(r)
                 /\ TableOf(r)[FunctionKey(FullFunctionName(e))].name = FullFunctionName(e)
                 /\ TableOf(r)[FunctionKey(FullFunctionName(e))].filename
                       = UnderRootOf(r, FileUnder(<<"functions", "/">> \o e.category.name,
                                                  e.function.name, <<".sqf">>)))

\* Both root files declare MY_fnc_doA and both were indexed: each table has
\* its record of that name, with the file under its own directory.
C18_Witness ==
    /\ ScannedRegistry(Root1) /\ ScannedRegistry(Root2)
    /\ \A r \in Roots :
          /\ <<"m", "y", "_fnc_", "d", "o", "a">> \in DOMAIN TableOf(r)
          /\ TableOf(r)[<<"m", "y", "_fnc_", "d", "o", "a">>].name
                = <<"M", "Y", "_fnc_", "d", "o", "A">>
    /\ TableOf(Root1)[<<"m", "y", "_fnc_", "d", "o", "a">>].filename
          = <<"/", "w", "/", "functions", "/", "U", "t", "/", "fn_", "d", "o", "A", ".sqf">>
    /\ TableOf(Root2)[<<"m", "y", "_fnc_", "d", "o", "a">>].filename
          = <<"/", "w", "/", "m", "/", "functions", "/", "U", "t", "/", "fn_", "d", "o", "A", ".sqf">>

(***************************************************************************)
(* C19: the diagnostics of a pass replace those of the pass before         *)
(***************************************************************************)
\* The diagnostics that report a missing file among those the pushes of
\* `sent` carry for a URI.
MissingFileSent(sent, uri) ==
    {d \in UNION {Range(sent[i].diagnostics) : i \in {j \in 1..Len(sent) : sent[j].uri = uri}} :
        d.message[1] = "Failed to find "}

\* C19: when a pass of root file r ends, no URI has a missing-file diagnostic
\* published that the pass of r before it sent and this one did not send
\* again, the URIs of files this pass did not touch included.
C19_FullReplace ==
    [][\A r \in Roots : IsPass(r) =>
          \A uri \in DOMAIN published' :
              \A d \in Range(published'[uri]) :
                  d \in MissingFileSent(lastPass[r].sent, uri) =>
                      d \in MissingFileSent(lastPass'[r].sent, uri)]_vars

(***************************************************************************)
(* C20: the promise of indexWorkspace                                      *)
(***************************************************************************)
\* C20: once indexWorkspace is called its promise resolves in the end,
\* whatever fails on the way: a root file with a syntax error, a scan that
\* throws, a listed root file that is not on disk, an error of glob.
C20_IndexAlwaysResolves == (indexing # "none") ~> (indexing = "resolved")

(***************************************************************************)
(* C21, C22: the promise of parseDocument                                  *)
(***************************************************************************)
\* The task of request n of document d has run, as the k-th task of d.
RanAs(d, n, k) == k \in 1..Len(runs[d]) /\ runs[d][k] = n

\* The promise of request n of document d is resolved.  The task of a root
\* file resolves it with the promise of parseFile, which the callback of
\* fs.readFile resolves; the task of any other document resolves it itself.
PromiseResolved(d, n) ==
    \E k \in 1..Len(runs[d]) :
        /\ RanAs(d, n, k)
        /\ d \in RootDocuments => finished[d] >= k

\* C21: every promise parseDocument returned is resolved in the end, that of
\* a request replaced by a later one within the window included.
C21_EveryPromiseResolves ==
    <>[](\A d \in Documents : \A n \in 1..issued[d] : PromiseResolved(d, n))

\* The step resolves the promise of a request of document d: for a root file
\* it is the callback of the read the task started, for any other document
\* the task itself.
PromiseResolves(d) ==
    IF d \in RootDocuments THEN finished'[d] = finished[d] + 1 ELSE TaskRuns(d)

\* The passes the task started have run to their end: for a root document the
\* step is the callback of the read of its root file, which has parsed and
\* scanned it; for any other document no read of the document is in flight.
ReindexCompleted(d) ==
    IF d \in RootDocuments
    THEN reading'[<<FsPath(d), d>>] = reading[<<FsPath(d), d>>] - 1 /\ IsPass(FsPath(d))
    ELSE \A r \in Roots : reading'[<<r, d>>] = 0

\* C22: when the promise of a request whose task ran resolves, every re-index
\* the task started has completed: the pass of the root file for a root
\* document, the pass of every known root file for a header file.
C22_ResolvedAfterReindex ==
    [][\A d \in Documents : PromiseResolves(d) => ReindexCompleted(d)]_vars

(***************************************************************************)
(* C23: the root files of the table are known root files                   *)
(***************************************************************************)
\* C23: every root file that has a table is in the list of known root files,
\* also when it was first indexed by parseDocument for a description.ext
\* document that indexWorkspace had not put in the list.
C23_TabledRootsKnown == \A r \in DOMAIN functions : r \in Range(files)

(***************************************************************************)
(* C24: a pass that fails with a ParseError keeps the tables               *)
(***************************************************************************)
\* C24: a pass of a root file that fails with a ParseError leaves the table
\* of that root file as it was, keys, names, files and info, and the tables
\* of the other root files too.
C24_ParseErrorKeepsTables ==
    [][\A r \in Roots :
          (IsPass(r) /\ Parsed[r, rootText[r], hppText].kind = "ParseError") =>
              /\ DOMAIN functions' = DOMAIN functions
              /\ \A b \in DOMAIN functions :
                    /\ DOMAIN functions'[b] = DOMAIN functions[b]
                    /\ \A k \in DOMAIN functions[b] :
                          /\ functions'[b][k].name = functions[b][k].name
                          /\ functions'[b][k].filename = functions[b][k].filename
                          /\ functions'[b][k].info = functions[b][k].info]_vars

\* The second root file was indexed, then given a syntax error and indexed
\* again: the pass failed and MY_fnc_doA is still in its table.
C24_Witness ==
    /\ rootText[Root2] = "bad"
    /\ lastPass[Root2].kind = "ParseError"
    /\ <<"m", "y", "_fnc_", "d", "o", "a">> \in DOMAIN TableOf(Root2)
    /\ TableOf(Root2)[<<"m", "y", "_fnc_", "d", "o", "a">>].name
          = <<"M", "Y", "_fnc_", "d", "o", "A">>
====
